---------------------------- MODULE Spec2Model ----------------------------
(***************************************************************************)
(* Model of the 321Convert service (src/app.py and the converters it       *)
(* dispatches to): the artifact lifecycle manager (file_tracker, the       *)
(* background sweep cleanup_files, the shutdown hook cleanup_all_files,    *)
(* the download/preview timer reset) and the conversion routes.            *)
(*                                                                         *)
(* The names os and ConverterFactory used by src/app.py are taken to be    *)
(* the standard os module and core.converter_factory.ConverterFactory      *)
(* (the imports that lines 1 and 11 of src/app.py hold as comments).       *)
(***************************************************************************)
EXTENDS Integers, Sequences, FiniteSets, TLC

---------------------------------------------------------------------------
(* Program constants *)

\* src/app.py:20 -- seconds an artifact may stay untouched
FILE_EXPIRATION == 3600

\* src/app.py:80 -- seconds the sweep sleeps between two passes
SWEEP_SLEEP == 300

---------------------------------------------------------------------------
(* Bounds of the model *)

\* the clock makes at most this many jumps of FILE_EXPIRATION seconds
MaxHours == 1

\* an uploaded PDF has at most this many pages
MaxPages == 2

\* an uploaded workbook has at most this many sheets
MaxSheets == 2

\* a rotation asked for is at most this many degrees, either way
MaxRotation == 460

\* a split is asked for with at most this many page ranges
MaxRanges == 2

\* a PDF converted to DOCX has at most this many pages
MaxDocxPages == 7

\* the pages of a PDF are converted at most this many to a chunk
MaxChunk == 4

\* files of the uploads folder the lifecycle specifications work with
Paths == {"original_a.pdf", "converted_original_a.pdf", "original_b.png"}

\* request-handling threads serving /downloads and /previews
Threads == {"t1", "t2"}

NoPath == "none"

VARIABLES
    now,            \* the wall clock, what time.time() returns
    file_tracker,   \* app.py:26, a function from the tracked paths to timestamps
    storage,        \* the files that exist in UPLOAD_FOLDER
    locked,         \* files on which os.remove raises (permissions, in use)
    spc,            \* cleanup_files: "sleep", "scan", "remove", "pop"
    current_time,   \* cleanup_files: its local current_time
    expired_files,  \* cleanup_files: its local list expired_files
    sweep_i,        \* cleanup_files: position of the removal loop in expired_files
    wake,           \* cleanup_files: the time its time.sleep(300) ends
    sweepLog,       \* history: outcome of each expired_files item of this pass
    tpc,            \* download_file / preview_file per thread: "idle", "clock", "store"
    tpath,          \* ... its filepath
    tnow,           \* ... the value its time.time() returned
    shpc,           \* process: "run", "cleaning" / "removing" (the hook), "exited"
    listing,        \* cleanup_all_files: what os.listdir returned
    shut_i,         \* cleanup_all_files: position in listing
    shutdownError,  \* cleanup_all_files: its except branch was taken
    last,           \* history: the last request served
    maxStamp,       \* history: per path, the largest clock value read for its entry
    raced,          \* history: per path, what wrote the entry while a touch had
                    \* read the clock and not yet stored: "no", "touch", "track"
    rpc,            \* conversion route: "idle", "staged", "returned" (convert returned)
    request,        \* ... flask's request: the route, the uploaded file, the form
    staged_path,    \* ... its local filepath, the staged upload
    result,         \* ... its local result, what convert returned
    response,       \* ... the answer to the last request: status and error
    written,        \* history: the files the last request wrote into the folder
    converters,     \* ConverterFactory._converters: conversion type -> handler
    invoked,        \* history: the handlers called while serving the last request
    tracked_paths,  \* history: the paths the last request called track_file on
    escaped,        \* history: the exception that left ConverterFactory.convert
                    \* while the last request was served
    rotated,        \* history: the pages of the upload that rotate_pdf_pages
                    \* rotated for the last request, and how many pages it has
    parked,         \* the request thread that is not running: its position, its
                    \* locals and its history
    call,           \* a handler called on its own: its name and its arguments
    outcome         \* ... and what the call returned or raised

vars == <<now, file_tracker, storage, locked, spc, current_time, expired_files,
          sweep_i, wake, sweepLog, tpc, tpath, tnow, shpc, listing, shut_i,
          shutdownError, last, maxStamp, raced, rpc, request, staged_path, result,
          response, written, converters, invoked, tracked_paths,
          escaped, rotated, parked, call, outcome>>

sweepVars == <<spc, current_time, expired_files, sweep_i, wake, sweepLog>>
touchVars == <<tpc, tpath, tnow>>
shutVars  == <<shpc, listing, shut_i, shutdownError>>
histVars  == <<last, maxStamp, raced>>
handlerVars == <<call, outcome>>
routeVars == <<rpc, request, staged_path, result, response, written, converters,
               invoked, tracked_paths, escaped, rotated, parked, call, outcome>>

---------------------------------------------------------------------------
(* Helpers *)

Max(a, b) == IF a >= b THEN a ELSE b

Range(s) == {s[i] : i \in 1 .. Len(s)}

\* every order in which a finite set can be listed
Orders(S) == {s \in [1 .. Cardinality(S) -> S] : Range(s) = S}

\* file_tracker[filepath] = t
SetEntry(ft, p, t) == [q \in (DOMAIN ft) \cup {p} |-> IF q = p THEN t ELSE ft[q]]

\* file_tracker.pop(filepath, None)
PopEntry(ft, p) == [q \in (DOMAIN ft) \ {p} |-> ft[q]]

\* (as if track_file were file_tracker.setdefault(filepath, time.time()))
track_file_keeps_first(ft, path, t) ==
    IF path \in DOMAIN ft THEN ft ELSE SetEntry(ft, path, t)

\* src/app.py:83-85
track_file(ft, path, t) == SetEntry(ft, path, t)

\* src/app.py:66
IsExpired(t, timestamp) == t - timestamp > FILE_EXPIRATION

---------------------------------------------------------------------------
(* The clock: it advances by FILE_EXPIRATION seconds, and by one second    *)
(* once in between, which is what tells "older than the window" from      *)
(* "as old as the window".                                                *)

Tick ==
    /\ shpc # "exited"
    /\ \E d \in {1, FILE_EXPIRATION} :
          /\ d = 1 => now % FILE_EXPIRATION = 0
          /\ d = FILE_EXPIRATION => now \div FILE_EXPIRATION < MaxHours
          /\ now' = now + d
    /\ UNCHANGED <<file_tracker, storage, locked, sweepVars, touchVars, shutVars>>

---------------------------------------------------------------------------
(* A request writes an artifact into the uploads folder and tracks it:     *)
(* file.save(filepath); track_file(filepath)  (app.py:135-140, 199-204,    *)
(* 335-340), or a handler output followed by track_file (app.py:169, 289). *)

StoreArtifact(p) ==
    /\ shpc = "run"
    /\ storage' = storage \cup {p}
    /\ file_tracker' = track_file(file_tracker, p, now)
    /\ UNCHANGED <<now, locked, sweepVars, touchVars, shutVars>>

---------------------------------------------------------------------------
(* download_file / preview_file, app.py:106-121.  The membership test, the *)
(* call of time.time() and the store into file_tracker are three steps     *)
(* between which other threads run.                                        *)

\* (as if the timer were reset without the membership test)
TouchCheckAlways(t, p) ==
    /\ shpc = "run"
    /\ tpc[t] = "idle"
    /\ tpc' = [tpc EXCEPT ![t] = "clock"]
    /\ tpath' = [tpath EXCEPT ![t] = p]
    /\ UNCHANGED <<now, file_tracker, storage, locked, sweepVars, tnow, shutVars>>

\* app.py:110 / 119: if filepath in file_tracker
TouchCheck(t, p) ==
    /\ shpc = "run"
    /\ tpc[t] = "idle"
    /\ IF p \in DOMAIN file_tracker
         THEN /\ tpc' = [tpc EXCEPT ![t] = "clock"]
              /\ tpath' = [tpath EXCEPT ![t] = p]
         ELSE \* no entry: nothing is written, send_file answers
              UNCHANGED <<tpc, tpath>>
    /\ UNCHANGED <<now, file_tracker, storage, locked, sweepVars, tnow, shutVars>>

\* app.py:107-112
download_file(t, p) == TouchCheck(t, p)

\* app.py:116-121
preview_file(t, p) == TouchCheck(t, p)

\* app.py:111 / 120, right-hand side: time.time()
TouchClock(t) ==
    /\ shpc = "run"
    /\ tpc[t] = "clock"
    /\ tnow' = [tnow EXCEPT ![t] = now]
    /\ tpc' = [tpc EXCEPT ![t] = "store"]
    /\ UNCHANGED <<now, file_tracker, storage, locked, sweepVars, tpath, shutVars>>

\* (as if a touch wrote back the timestamp the entry already has)
TouchValueUnchanged(t) ==
    IF tpath[t] \in DOMAIN file_tracker THEN file_tracker[tpath[t]] ELSE 0

\* the value a touch stores: the clock value it read
TouchValue(t) == tnow[t]

\* app.py:111 / 120, the assignment file_tracker[filepath] = ...
TouchStore(t) ==
    /\ shpc = "run"
    /\ tpc[t] = "store"
    /\ file_tracker' = SetEntry(file_tracker, tpath[t], TouchValue(t))
    /\ tpc' = [tpc EXCEPT ![t] = "idle"]
    /\ tpath' = [tpath EXCEPT ![t] = NoPath]
    /\ tnow' = [tnow EXCEPT ![t] = 0]
    /\ UNCHANGED <<now, storage, locked, sweepVars, shutVars>>

---------------------------------------------------------------------------
(* cleanup_files, app.py:58-80: the background sweep.  One pass reads the  *)
(* clock, scans a snapshot of file_tracker, then works through             *)
(* expired_files; os.remove and file_tracker.pop are separate steps.       *)

\* app.py:61
SweepReadClock ==
    /\ shpc # "exited"
    /\ spc = "sleep"
    /\ now >= wake
    /\ current_time' = now
    /\ spc' = "scan"
    /\ UNCHANGED <<now, file_tracker, storage, locked, expired_files, sweep_i, wake,
                   sweepLog, touchVars, shutVars>>

\* app.py:65-67: the entries of the snapshot that are expired
ExpiredSet(ft, t) == {p \in DOMAIN ft : IsExpired(t, ft[p])}

\* app.py:62-67.  list(file_tracker.items()) lists the entries in the
\* dictionary's insertion order, which the model does not keep: any order.
SweepScan ==
    /\ shpc # "exited"
    /\ spc = "scan"
    /\ expired_files' \in Orders(ExpiredSet(file_tracker, current_time))
    /\ sweep_i' = 1
    /\ sweepLog' = <<>>
    /\ IF expired_files' = <<>>
         THEN spc' = "sleep" /\ wake' = now + SWEEP_SLEEP
         ELSE spc' = "remove" /\ UNCHANGED wake
    /\ UNCHANGED <<now, file_tracker, storage, locked, current_time, touchVars,
                   shutVars>>

\* (as if the try statement enclosed the for loop: an error ends the pass)
AfterRemoveErrorEndsPass(i) == Len(expired_files) + 1

\* app.py:76-77: the except branch is inside the for loop, so the loop
\* goes on with the item after i
AfterRemoveError(i) == i + 1

\* the for loop of app.py:70 moves to item i, or ends and the pass sleeps (app.py:80)
SweepGoTo(i) ==
    /\ sweep_i' = i
    /\ IF i > Len(expired_files)
         THEN spc' = "sleep" /\ wake' = now + SWEEP_SLEEP
         ELSE spc' = "remove" /\ UNCHANGED wake

\* app.py:72-73 (and 76-77 when os.remove raises)
SweepRemoveFile ==
    /\ shpc # "exited"
    /\ spc = "remove"
    /\ LET filepath == expired_files[sweep_i] IN
         IF filepath \in storage /\ filepath \in locked
           THEN \* os.remove raises: line 74 is skipped
                /\ sweepLog' = Append(sweepLog, "failed")
                /\ SweepGoTo(AfterRemoveError(sweep_i))
                /\ UNCHANGED storage
           ELSE /\ storage' = storage \ {filepath}
                /\ spc' = "pop"
                /\ UNCHANGED <<sweep_i, wake, sweepLog>>
    /\ UNCHANGED <<now, file_tracker, locked, current_time, expired_files, touchVars,
                   shutVars>>

\* app.py:74-75
SweepPop ==
    /\ shpc # "exited"
    /\ spc = "pop"
    /\ file_tracker' = PopEntry(file_tracker, expired_files[sweep_i])
    /\ sweepLog' = Append(sweepLog, "removed")
    /\ SweepGoTo(sweep_i + 1)
    /\ UNCHANGED <<now, storage, locked, current_time, expired_files, touchVars,
                   shutVars>>

---------------------------------------------------------------------------
(* cleanup_all_files, app.py:88-97: the atexit hook.  The server no longer *)
(* takes requests; the daemon sweep thread is still running, so            *)
(* os.path.isfile and os.remove are two steps.                             *)

\* app.py:91: os.listdir(UPLOAD_FOLDER)
ListDir == storage

ShutdownBegin ==
    /\ shpc = "run"
    /\ listing' \in Orders(ListDir)
    /\ shut_i' = 1
    /\ shpc' = "cleaning"
    /\ UNCHANGED <<now, file_tracker, storage, locked, sweepVars, touchVars,
                   shutdownError>>

\* app.py:92-93 for one filename: if os.path.isfile(file_path)
ShutdownIsFile ==
    /\ shpc = "cleaning"
    /\ shut_i <= Len(listing)
    /\ IF listing[shut_i] \in storage
         THEN shpc' = "removing" /\ UNCHANGED shut_i
         ELSE shut_i' = shut_i + 1 /\ UNCHANGED shpc
    /\ UNCHANGED <<now, file_tracker, storage, locked, sweepVars, touchVars, listing,
                   shutdownError>>

\* app.py:94, and 96-97 when os.remove raises (the file cannot be removed,
\* or is gone by now): the try statement encloses the whole loop, so the
\* loop is left
ShutdownRemove ==
    /\ shpc = "removing"
    /\ LET file_path == listing[shut_i] IN
         IF file_path \notin storage \/ file_path \in locked
           THEN /\ shutdownError' = TRUE
                /\ shpc' = "exited"
                /\ UNCHANGED <<storage, shut_i>>
           ELSE /\ storage' = storage \ {file_path}
                /\ shut_i' = shut_i + 1
                /\ shpc' = "cleaning"
                /\ UNCHANGED shutdownError
    /\ UNCHANGED <<now, file_tracker, locked, sweepVars, touchVars, listing>>

\* app.py:95
ShutdownFinish ==
    /\ shpc = "cleaning"
    /\ shut_i > Len(listing)
    /\ shpc' = "exited"
    /\ UNCHANGED <<now, file_tracker, storage, locked, sweepVars, touchVars, listing,
                   shut_i, shutdownError>>

\* app.py:107-112 / 116-121 served without another thread running in
\* between: the timer reset of a download or a preview as one step
Touch(p) ==
    /\ shpc = "run"
    /\ IF p \in DOMAIN file_tracker
         THEN file_tracker' = SetEntry(file_tracker, p, now)
         ELSE UNCHANGED file_tracker
    /\ UNCHANGED <<now, storage, locked, sweepVars, touchVars, shutVars>>

---------------------------------------------------------------------------
(* The conversion routes, app.py:124-429, and what they dispatch to.       *)
(* A path of the model is the name of a file inside UPLOAD_FOLDER:         *)
(* os.path.join(UPLOAD_FOLDER, name) and os.path.basename undo each other. *)
(* An uploaded file's name is held split at its last slash and last dot.   *)

\* {}
EmptyDict == [k \in {} |-> ""]

\* request.form.get(k, default)
Get(form, k, default) == IF k \in DOMAIN form THEN form[k] ELSE default

NoRequest == [route |-> "none",
              file |-> [part |-> FALSE, dir |-> "", stem |-> "", ext |-> ""],
              form |-> EmptyDict]
NoResult == [files |-> {}, kind |-> "none", paths |-> <<>>]
NoResponse == [status |-> 0, error |-> ""]

\* an exception as it leaves ConverterFactory.convert: its class, and the
\* operation and cause it records, "" when it records none
NoException == [class |-> "none", operation |-> "", cause |-> ""]
Unclassified(class) == [class |-> class, operation |-> "", cause |-> ""]

\* no handler has been called on its own
NoCall == [handler |-> "none"]
NoOutcome == [kind |-> "none"]

\* rotate_pdf_pages has not run
NoRotation == [total_pages |-> 0, pages |-> {}, angle |-> 0]

\* file.filename
FileName(file) ==
    (IF file.dir = "" THEN "" ELSE file.dir \o "/") \o file.stem
        \o (IF file.ext = "" THEN "" ELSE "." \o file.ext)

\* os.path.basename(file.filename)
BaseName(file) == file.stem \o (IF file.ext = "" THEN "" ELSE "." \o file.ext)

\* app.py:135-136, 199-200, 335-336: f"original_{os.path.basename(file.filename)}"
StagedPath(file) == "original_" \o BaseName(file)

\* app.py:355: os.path.splitext(os.path.basename(filepath))[0]
StagedStem(file) == "original_" \o file.stem

\* int(s): the base-10 integers among the strings the requests carry; on
\* any other string int raises ValueError
IntLiterals == {"-90", "1", "2", "80", "150", "450"}

int(s) ==
    CASE s = "-90" -> 0 - 90
      [] s = "1"   -> 1
      [] s = "2"   -> 2
      [] s = "80"  -> 80
      [] s = "150" -> 150
      [] s = "450" -> 450

\* s.split(',') for the strings the requests carry in the field pages
split(s) ==
    CASE s = "2"   -> <<"2">>
      [] s = "2,1" -> <<"2", "1">>
      [] s = "1,x" -> <<"1", "x">>
      [] OTHER     -> <<s>>

\* s.lower() for the strings the requests carry in the format fields
lower(s) ==
    CASE s = "PNG"  -> "png"
      [] s = "JPEG" -> "jpeg"
      [] OTHER      -> s

\* app.py:29-37
FORMAT_MAPPING ==
    [k \in {"jpg", "jpeg", "png", "webp", "gif", "bmp", "tiff"} |->
        CASE k \in {"jpg", "jpeg"} -> "JPEG"
          [] k = "png"  -> "PNG"
          [] k = "webp" -> "WEBP"
          [] k = "gif"  -> "GIF"
          [] k = "bmp"  -> "BMP"
          [] k = "tiff" -> "TIFF"]

\* pdf_converter.py:335-346: the names register_converters registers
PdfConverters ==
    {"pdf_to_images", "images_to_pdf", "merge_pdfs", "split_pdf",
     "extract_text_from_pdf", "create_pdf_from_text", "compress_pdf",
     "rotate_pdf_pages", "encrypt_pdf", "decrypt_pdf"}

\* document_converter.py:413-419
DocumentConverters ==
    {"docx_to_pdf", "html_to_pdf", "excel_to_pdf", "pdf_to_docx",
     "create_csv_from_excel", "text_to_html", "image_to_text"}

\* a register that keeps the handler a name already has
register_keeps_first(registry, conversion_type, converter_func) ==
    IF conversion_type \in DOMAIN registry
      THEN registry
      ELSE SetEntry(registry, conversion_type, converter_func)

\* ConverterFactory.register, converter_factory.py:10-17
register(registry, conversion_type, converter_func) ==
    SetEntry(registry, conversion_type, converter_func)

\* ConverterFactory._converters once app.py:12 has imported conversions:
\* each register_converters registers its functions under their own names
\* (image_converter.py registers nothing)
register_converters ==
    [conversion_type \in PdfConverters \cup DocumentConverters |-> conversion_type]

Sig(names, required, varkw) ==
    [names |-> names, required |-> required, varkw |-> varkw]

\* the parameters each registered handler declares after its first one:
\* their names, those without a default, and whether it takes **kwargs
Signature(op) ==
    CASE op = "pdf_to_images" -> Sig({"output_dir", "dpi", "image_format"}, {}, FALSE)
      [] op = "images_to_pdf" -> Sig({"output_path"}, {}, FALSE)
      [] op = "merge_pdfs" -> Sig({"output_path"}, {}, FALSE)
      [] op = "split_pdf" -> Sig({"page_ranges", "output_dir"}, {}, FALSE)
      [] op = "extract_text_from_pdf" -> Sig({}, {}, FALSE)
      [] op = "create_pdf_from_text" -> Sig({"output_path"}, {"output_path"}, FALSE)
      [] op = "compress_pdf" -> Sig({"output_path", "quality"}, {}, FALSE)
      [] op = "rotate_pdf_pages" ->
            Sig({"rotation", "pages", "output_path"}, {"rotation"}, FALSE)
      [] op = "encrypt_pdf" ->
            Sig({"user_password", "owner_password", "output_path"},
                {"user_password"}, FALSE)
      [] op = "decrypt_pdf" -> Sig({"password", "output_path"}, {"password"}, FALSE)
      [] op = "html_to_pdf" -> Sig({"output_path"}, {"output_path"}, FALSE)
      [] op = "pdf_to_docx" -> Sig({"output_path", "chunk_size"}, {}, FALSE)
      [] op \in {"docx_to_pdf", "excel_to_pdf", "create_csv_from_excel",
                 "text_to_html", "image_to_text"} -> Sig({}, {}, TRUE)

\* the call handler(input_path, **kwargs) of converter_factory.py:33 binds:
\* no keyword the handler does not take, none of its required ones missing
Binds(op, kw) ==
    LET s == Signature(op)
    IN  (s.varkw \/ kw \subseteq s.names) /\ s.required \subseteq kw

\* how a handler call ends
Ok(out) == [files |-> {out}, kind |-> "path", paths |-> <<out>>]
RaisedBefore == [files |-> {}, kind |-> "raise", paths |-> <<>>]
RaisedAfter(out) == [files |-> {out}, kind |-> "raise", paths |-> <<>>]
Text(files) == [files |-> files, kind |-> "text", paths |-> <<>>]
Bool(files, b) ==
    [files |-> files, kind |-> IF b THEN "True" ELSE "False", paths |-> <<>>]
List(paths) == [files |-> Range(paths), kind |-> "list", paths |-> paths]

\* The ways the handler registered as op can end when it is called with the
\* staged upload and the keywords kw: the files it has written by then and
\* what it returns, or that it raises.  The routes always pass output_path
\* (app.py:230, 370).
HandlerOutcomes(op, input_path, kw) ==
    LET out == Get(kw, "output_path", NoPath)
    IN
    CASE op = "pdf_to_images" ->
            \* pdf_converter.py:30-43
            {List(<<>>), List(<<"page_1.png">>),
             List(<<"page_1.png", "page_2.png">>), RaisedBefore,
             RaisedAfter("page_1.png")}
      [] op = "images_to_pdf" ->
            \* pdf_converter.py:63-64: the file is opened first; the iteration
            \* over input_path, a str, hands img2pdf one-character names
            {RaisedAfter(out)}
      [] op = "merge_pdfs" ->
            \* pdf_converter.py:87-88: one-character names again, before the write
            {RaisedBefore}
      [] op = "split_pdf" ->
            \* pdf_converter.py:112-140
            {List(<<"split_1.pdf">>), List(<<"split_1.pdf", "split_2.pdf">>),
             RaisedBefore, RaisedAfter("split_1.pdf")}
      [] op = "extract_text_from_pdf" ->
            \* pdf_converter.py:150-157
            {Text({}), RaisedBefore}
      [] op = "create_pdf_from_text" ->
            \* pdf_converter.py:168-183
            {Ok(out)}
      [] op \in {"compress_pdf", "rotate_pdf_pages", "encrypt_pdf", "decrypt_pdf",
                 "excel_to_pdf"} ->
            \* pdf_converter.py:211-215, 258-261, 293-296, 328-331 and
            \* document_converter.py:157-171: the reader may raise before the
            \* output is opened, the writer after
            {Ok(out), RaisedBefore, RaisedAfter(out)}
      [] op \in {"docx_to_pdf", "pdf_to_docx", "create_csv_from_excel",
                 "text_to_html"} ->
            \* document_converter.py:20-25, 192-272, 293-349, 357-389
            {Ok(out), RaisedBefore}
      [] op = "html_to_pdf" ->
            \* document_converter.py:42-70: errors are answered by False
            {Bool({out}, TRUE), Bool({out}, FALSE), Bool({}, FALSE)}
      [] op = "image_to_text" ->
            \* document_converter.py:397-409
            {Text({out}), RaisedBefore}

\* what the lifecycle threads own: a route step leaves it alone
lifecycleVars == <<now, locked, sweepVars, touchVars, shutVars, histVars>>

\* return jsonify(...), status: the request and the locals of the route
\* function are gone
AnswerWith(body) ==
    /\ response' = body
    /\ rpc' = "idle"
    /\ request' = NoRequest
    /\ staged_path' = NoPath
    /\ result' = NoResult

\* ... with nothing but a status and an error
Answer(status, error) == AnswerWith([status |-> status, error |-> error])

\* app.py:126-131, 190-195, 326-331: no file part, or an empty file name
Reject(route, file) ==
    /\ rpc = "idle"
    /\ ~file.part \/ FileName(file) = ""
    /\ Answer(400, IF file.part THEN "No selected file" ELSE "No file part")
    /\ written' = {}
    /\ invoked' = {}
    /\ tracked_paths' = {}
    /\ escaped' = NoException
    /\ rotated' = NoRotation
    /\ UNCHANGED <<file_tracker, storage, lifecycleVars, converters>>

\* app.py:133-140, 197-204, 333-340: file.save(filepath); track_file(filepath)
Stage(route, file, form) ==
    /\ rpc = "idle"
    /\ file.part /\ FileName(file) # ""
    /\ request' = [route |-> route, file |-> file, form |-> form]
    /\ staged_path' = StagedPath(file)
    /\ storage' = storage \cup {staged_path'}
    /\ file_tracker' = track_file(file_tracker, staged_path', now)
    /\ written' = {staged_path'}
    /\ rpc' = "staged"
    /\ response' = NoResponse
    /\ result' = NoResult
    /\ invoked' = {}
    /\ tracked_paths' = {staged_path'}
    /\ escaped' = NoException
    /\ rotated' = NoRotation
    /\ UNCHANGED <<lifecycleVars, converters>>

\* an exception inside the try block of a route is answered by its except
\* branch, app.py:184-185, 320-321, 428-429
Raise(error) ==
    /\ Answer(500, error)
    /\ UNCHANGED <<file_tracker, storage, written, invoked, tracked_paths, rotated>>

\* rotate_pdf_pages, pdf_converter.py:240-253: the pages of a PDF of
\* total_pages pages that are rotated; pages is None when the keyword is
\* not passed
RotatedPages(kw, total_pages) ==
    LET pages == IF "pages" \in DOMAIN kw THEN Range(kw["pages"])
                                          ELSE 1 .. total_pages
    IN  {i \in 1 .. total_pages : i \in pages}

\* an angle rounded down to a multiple of 90 and not brought into 0 .. 359
RotationAngleUnwrapped(rotation) == 90 * (rotation \div 90)

\* rotate_pdf_pages, pdf_converter.py:233-236: the angle handed to
\* page.rotate; % and // of Python are % and \div of TLA+, both floor
RotationAngle(rotation) ==
    LET r == rotation % 360
    IN  IF r % 90 # 0 THEN 90 * (r \div 90) ELSE r

\* what a run of handler that has opened its output has rotated
Rotation(handler, kw, total_pages) ==
    IF handler = "rotate_pdf_pages"
      THEN [total_pages |-> total_pages, pages |-> RotatedPages(kw, total_pages),
            angle |-> RotationAngle(kw["rotation"])]
      ELSE NoRotation

\* converter_factory.py:33: cls._converters[conversion_type](input_path,
\* **kwargs); a call that does not bind raises TypeError and the body of the
\* handler does not run
call_handler(handler, input_path, kwargs) ==
    IF ~Binds(handler, DOMAIN kwargs)
      THEN Raise("TypeError") /\ escaped' = Unclassified("TypeError")
      ELSE \E o \in HandlerOutcomes(handler, input_path, kwargs) :
              /\ invoked' = invoked \cup {handler}
              /\ IF handler = "rotate_pdf_pages" /\ o.files # {}
                   THEN \E total_pages \in 0 .. MaxPages :
                           rotated' = Rotation(handler, kwargs, total_pages)
                   ELSE rotated' = NoRotation
              /\ storage' = storage \cup o.files
              /\ written' = written \cup o.files
              /\ UNCHANGED <<file_tracker, tracked_paths>>
              /\ IF o.kind = "raise"
                   THEN /\ Answer(500, "conversion error")
                        /\ escaped' = Unclassified("Exception")
                   ELSE /\ result' = o
                        /\ rpc' = "returned"
                        /\ UNCHANGED <<request, staged_path, response, escaped>>

\* a dispatcher that falls back on a handler when the name is unknown
convert_with_fallback(conversion_type, input_path, kwargs) ==
    call_handler(IF conversion_type \in DOMAIN converters
                   THEN converters[conversion_type]
                   ELSE "create_pdf_from_text",
                 input_path, kwargs)

\* ConverterFactory.convert, converter_factory.py:20-33, called in the try
\* block of a route
convert(conversion_type, input_path, kwargs) ==
    IF conversion_type \notin DOMAIN converters
      THEN /\ Raise("No converter registered for type")
           /\ escaped' = Unclassified("ValueError")
      ELSE call_handler(converters[conversion_type], input_path, kwargs)

\* the field k of the form is there and int() raises on it
BadInt(form, k) == k \in DOMAIN form /\ form[k] \notin IntLiterals

\* app.py:212, 217-220: an int() of the try block raises ValueError
PdfFieldsFail(form) ==
    LET t == form["conversion_type"]
    IN  \/ t = "pdf_to_images" /\ BadInt(form, "dpi")
        \/ /\ t = "rotate_pdf_pages"
           /\ \/ BadInt(form, "rotation")
              \/ LET pages == Get(form, "pages", "")
                 IN  /\ pages # ""
                     /\ \E i \in 1 .. Len(split(pages)) :
                            split(pages)[i] \notin IntLiterals

\* a parse that hands the pages back in reverse
ParsePagesReversed(pages) ==
    [i \in 1 .. Len(split(pages)) |->
        int(split(pages)[Len(split(pages)) + 1 - i])]

\* app.py:220: [int(p) for p in pages.split(',')]
ParsePages(pages) ==
    [i \in 1 .. Len(split(pages)) |-> int(split(pages)[i])]

\* app.py:210-226: params before output_path is added
PdfFields(form) ==
    LET t == form["conversion_type"]
    IN
    CASE t = "pdf_to_images" ->
            SetEntry(SetEntry(EmptyDict, "dpi",
                              IF "dpi" \in DOMAIN form THEN int(form["dpi"]) ELSE 300),
                     "format", Get(form, "format", "PNG"))
      [] t = "compress_pdf" ->
            SetEntry(EmptyDict, "quality", Get(form, "quality", "medium"))
      [] t = "rotate_pdf_pages" ->
            LET r == SetEntry(EmptyDict, "rotation",
                              IF "rotation" \in DOMAIN form
                                THEN int(form["rotation"]) ELSE 90)
                pages == Get(form, "pages", "")
            IN  IF pages # ""
                  THEN SetEntry(r, "pages", ParsePages(pages))
                  ELSE r
      [] t \in {"encrypt_pdf", "decrypt_pdf"} ->
            LET r == SetEntry(EmptyDict, "password", Get(form, "password", ""))
            IN  IF t = "encrypt_pdf" /\ Get(form, "owner_password", "") # ""
                  THEN SetEntry(r, "owner_password", form["owner_password"])
                  ELSE r
      [] OTHER -> EmptyDict

\* app.py:358-368: output_extensions.get(conversion_type, 'txt')
OutputExtension(conversion_type) ==
    CASE conversion_type \in {"docx_to_pdf", "html_to_pdf", "excel_to_pdf"} -> "pdf"
      [] conversion_type = "pdf_to_docx" -> "docx"
      [] conversion_type = "create_csv_from_excel" -> "csv"
      [] conversion_type = "text_to_html" -> "html"
      [] OTHER -> "txt"

\* app.py:346-352: params before output_path is added
DocumentFields(form) ==
    LET t == form["conversion_type"]
    IN
    CASE t \in {"excel_to_pdf", "create_csv_from_excel"} ->
            IF Get(form, "sheet_name", "") # ""
              THEN SetEntry(EmptyDict, "sheet_name", form["sheet_name"])
              ELSE EmptyDict
      [] t = "text_to_html" ->
            SetEntry(EmptyDict, "title", Get(form, "title", "Converted Document"))
      [] OTHER -> EmptyDict

\* the local output_file of the route serving the request, app.py:229, 369
output_file ==
    IF request.route = "pdf"
      THEN "converted_" \o staged_path
      ELSE StagedStem(request.file) \o "_converted."
             \o OutputExtension(request.form["conversion_type"])

\* the local params of the route serving the request, app.py:210-230, 346-370
params ==
    SetEntry(IF request.route = "pdf" THEN PdfFields(request.form)
                                      ELSE DocumentFields(request.form),
             "output_path", output_file)

\* the form without the integer fields on which int() raises
WithoutBadIntegers(form) ==
    [k \in {j \in DOMAIN form :
                ~(j \in {"dpi", "rotation"} /\ BadInt(form, j))
                /\ ~(j = "pages" /\ PdfFieldsFail(form))} |-> form[k]]

\* a route that falls back on the default of a field whose value is not an
\* integer
PdfDispatchLenient ==
    /\ rpc = "staged"
    /\ request.route = "pdf"
    /\ LET form == request.form
       IN  IF "conversion_type" \notin DOMAIN form
             THEN Raise("KeyError") /\ UNCHANGED escaped
           ELSE convert(form["conversion_type"], staged_path,
                        SetEntry(PdfFields(WithoutBadIntegers(form)),
                                 "output_path", output_file))
    /\ UNCHANGED <<lifecycleVars, converters>>

\* convert_pdf_route, app.py:206-233: the form is read, params and
\* output_file are set, the conversion is dispatched
PdfDispatch ==
    /\ rpc = "staged"
    /\ request.route = "pdf"
    /\ LET form == request.form
       IN  IF "conversion_type" \notin DOMAIN form
             THEN Raise("KeyError") /\ UNCHANGED escaped
           ELSE IF PdfFieldsFail(form)
             THEN Raise("ValueError") /\ UNCHANGED escaped
           ELSE convert(form["conversion_type"], staged_path, params)
    /\ UNCHANGED <<lifecycleVars, converters>>

\* the track_file calls of a loop over paths
TrackEach(ft, paths, t) ==
    [q \in (DOMAIN ft) \cup paths |-> IF q \in paths THEN t ELSE ft[q]]

\* the rest of a route: it writes the files made, tracks the paths tracked
\* and answers
FinishWith(made, tracked, body) ==
    /\ storage' = storage \cup made
    /\ written' = written \cup made
    /\ file_tracker' = TrackEach(file_tracker, tracked, now)
    /\ tracked_paths' = tracked_paths \cup tracked
    /\ AnswerWith(body)
    /\ UNCHANGED <<invoked, escaped, rotated>>

Finish(made, tracked, status, error) ==
    FinishWith(made, tracked, [status |-> status, error |-> error])

\* app.py:256-284 / 296-315: the listed files are tracked, zip_path is
\* written with one entry per listed file, in their order, and tracked;
\* zipf.write raises on a listed file that is missing.  The answer of
\* pdf_to_images holds one preview url per listed file ("images").
Bundle(zip_path, previews) ==
    IF Range(result.paths) \subseteq storage
      THEN FinishWith({zip_path}, Range(result.paths) \cup {zip_path},
                      IF previews
                        THEN [status |-> 200, error |-> "", archive |-> result.paths,
                              images |-> result.paths]
                        ELSE [status |-> 200, error |-> "", archive |-> result.paths])
      ELSE Finish({zip_path}, Range(result.paths), 500, "FileNotFoundError")

\* convert_pdf_route, app.py:235-318: the result is turned into the answer.
\* A str that is a text is not the path of a file.
PdfRespond ==
    /\ rpc = "returned"
    /\ request.route = "pdf"
    /\ LET t == request.form["conversion_type"]
       IN  IF t = "extract_text_from_pdf"
             THEN IF result.kind = "text"
                    THEN Finish({"extracted_text.txt"}, {"extracted_text.txt"}, 200, "")
                    ELSE Finish({}, {}, 500, "Unexpected result format")
           ELSE IF t = "pdf_to_images"
             THEN IF result.kind = "list"
                    THEN Bundle("converted_images.zip", TRUE)
                    ELSE Finish({}, {}, 500, "Unexpected result format")
           ELSE IF result.kind = "path" /\ result.paths[1] \in storage
             THEN Finish({}, {result.paths[1]}, 200, "")
           ELSE IF result.kind = "list" /\ Range(result.paths) \subseteq storage
             THEN Bundle("converted_files.zip", FALSE)
           ELSE Finish({}, {}, 500, "Unexpected result format")
    /\ UNCHANGED <<lifecycleVars, converters>>

\* convert_document_route, app.py:342-373
DocumentDispatch ==
    /\ rpc = "staged"
    /\ request.route = "document"
    /\ LET form == request.form
       IN  IF "conversion_type" \notin DOMAIN form
             THEN Raise("KeyError") /\ UNCHANGED escaped
           ELSE convert(form["conversion_type"], staged_path, params)
    /\ UNCHANGED <<lifecycleVars, converters>>

\* convert_document_route, app.py:375-426
DocumentRespond ==
    /\ rpc = "returned"
    /\ request.route = "document"
    /\ LET t == request.form["conversion_type"]
           exists == output_file \in storage
           output == IF exists THEN {output_file} ELSE {}
       IN  IF t = "image_to_text"
             THEN IF result.kind = "text"
                    THEN Finish({output_file}, {output_file}, 200, "")
                    ELSE Finish({}, output, 200, "")
           ELSE IF t = "text_to_html"
             THEN IF exists
                    THEN Finish({}, output, 200, "")
                    ELSE Finish({}, output, 500, "FileNotFoundError")
           ELSE IF exists
             THEN Finish({}, output, 200, "")
             ELSE Finish({}, output, 500, "Conversion failed: Output file not created")
    /\ UNCHANGED <<lifecycleVars, converters>>

\* convert_image_route, app.py:142-185: conversions.image_converter defines
\* neither convert_from_gif nor convert_image, the import of app.py:154 /
\* 161 raises ImportError
ImageConvert ==
    /\ rpc = "staged"
    /\ request.route = "image"
    /\ LET form == request.form
       IN  IF ~({"input_format", "output_format"} \subseteq DOMAIN form)
             THEN Raise("KeyError") /\ UNCHANGED escaped
           ELSE IF lower(form["output_format"]) \notin DOMAIN FORMAT_MAPPING
             THEN Finish({}, {}, 400, "Unsupported output format")
           ELSE Raise("ImportError") /\ UNCHANGED escaped
    /\ UNCHANGED <<lifecycleVars, converters>>

\* a listing that empties the dictionary get_converters hands out
get_available_converters_draining ==
    /\ rpc = "idle"
    /\ response' = [status |-> 200, error |-> "", converters |-> DOMAIN converters]
    /\ converters' = EmptyDict
    /\ written' = {}
    /\ invoked' = {}
    /\ tracked_paths' = {}
    /\ escaped' = NoException
    /\ rotated' = NoRotation
    /\ UNCHANGED <<rpc, request, staged_path, result, file_tracker, storage,
                   lifecycleVars>>

\* get_available_converters, app.py:432-436, and get_converters,
\* converter_factory.py:36-40: the names of the registry are answered
get_available_converters ==
    /\ rpc = "idle"
    /\ response' = [status |-> 200, error |-> "", converters |-> DOMAIN converters]
    /\ written' = {}
    /\ invoked' = {}
    /\ tracked_paths' = {}
    /\ escaped' = NoException
    /\ rotated' = NoRotation
    /\ UNCHANGED <<rpc, request, staged_path, result, file_tracker, storage,
                   lifecycleVars, converters>>

\* what a request thread owns: its position in the route function, flask's
\* request, its locals and its history
Context ==
    [rpc |-> rpc, request |-> request, staged_path |-> staged_path,
     result |-> result, response |-> response, written |-> written,
     invoked |-> invoked, tracked_paths |-> tracked_paths, escaped |-> escaped,
     rotated |-> rotated]

\* ... of a thread that has served no request yet
IdleContext ==
    [rpc |-> "idle", request |-> NoRequest, staged_path |-> NoPath,
     result |-> NoResult, response |-> NoResponse, written |-> {},
     invoked |-> {}, tracked_paths |-> {}, escaped |-> NoException,
     rotated |-> NoRotation]

\* the server runs the routes in threads: the running request thread is
\* suspended between two of its steps and the other one goes on
Switch ==
    /\ parked' = Context
    /\ rpc' = parked.rpc
    /\ request' = parked.request
    /\ staged_path' = parked.staged_path
    /\ result' = parked.result
    /\ response' = parked.response
    /\ written' = parked.written
    /\ invoked' = parked.invoked
    /\ tracked_paths' = parked.tracked_paths
    /\ escaped' = parked.escaped
    /\ rotated' = parked.rotated
    /\ UNCHANGED <<file_tracker, storage, converters, lifecycleVars, handlerVars>>

\* a call ConverterFactory.register(conversion_type, converter_func),
\* pdf_converter.py:337-346, document_converter.py:413-419
Register(conversion_type, converter_func) ==
    /\ converters' = register(converters, conversion_type, converter_func)
    /\ UNCHANGED <<now, file_tracker, storage, locked, sweepVars, touchVars, shutVars,
                   rpc, request, staged_path, result, response, written, invoked,
                   tracked_paths, escaped, rotated, parked, handlerVars>>

---------------------------------------------------------------------------
(* The handlers, called on their own.  The content of the input file is an *)
(* argument of the model's handler: for a workbook its sheets in order,    *)
(* each with its name and whether it is empty.                             *)

\* os.path.splitext(path)[0] for the output paths of the calls
splitext0(path) ==
    CASE path = "out.csv" -> "out"
      [] path = "a.b.csv" -> "a.b"
      [] OTHER -> path

\* document_converter.py:320: f"{base_name}_{sheet}.csv"
SheetOutput(base_name, sheet) == base_name \o "_" \o sheet \o ".csv"

\* the loop with a sheet written whether it is empty or not
RECURSIVE ConvertEverySheet(_, _)
ConvertEverySheet(sheet_names, base_name) ==
    IF sheet_names = <<>>
      THEN <<>>
      ELSE <<SheetOutput(base_name, Head(sheet_names).name)>>
             \o ConvertEverySheet(Tail(sheet_names), base_name)

\* document_converter.py:314-322: the loop over sheet_names; output_files
RECURSIVE ConvertEachSheet(_, _)
ConvertEachSheet(sheet_names, base_name) ==
    IF sheet_names = <<>>
      THEN <<>>
      ELSE LET sheet == Head(sheet_names)
               output_files == ConvertEachSheet(Tail(sheet_names), base_name)
           IN  IF ~sheet.empty
                 THEN <<SheetOutput(base_name, sheet.name)>> \o output_files
                 ELSE output_files

\* create_csv_from_excel, document_converter.py:275-349, on a workbook that
\* pandas can read
create_csv_from_excel(workbook, kwargs) ==
    IF Get(kwargs, "all_sheets", FALSE)
      THEN List(ConvertEachSheet(workbook, splitext0(kwargs["output_path"])))
      ELSE LET named == {i \in 1 .. Len(workbook) :
                            "sheet_name" \in DOMAIN kwargs
                            /\ workbook[i].name = kwargs["sheet_name"]}
               read == IF "sheet_name" \in DOMAIN kwargs THEN named ELSE {1}
           IN  IF read = {} \/ \E i \in read : workbook[i].empty
                 THEN RaisedBefore
                 ELSE Ok(kwargs["output_path"])

\* rotate_pdf_pages, pdf_converter.py:218-261, on a PDF that PyPDF2 can
\* read and an output that can be written
rotate_pdf_pages(total_pages, kwargs) ==
    [files |-> {kwargs["output_path"]}, kind |-> "path",
     paths |-> <<kwargs["output_path"]>>,
     rotated |-> Rotation("rotate_pdf_pages", kwargs, total_pages)]

\* range(a, b) of Python as a sequence: a, a + 1, ..., b - 1
range(a, b) == [k \in 1 .. Max(b - a, 0) |-> a + k - 1]

\* os.path.dirname of the paths the calls use
dirname(path) ==
    CASE path = "uploads/a.pdf" -> "uploads"
      [] path = "a.pdf" -> ""
      [] OTHER -> ""

\* os.path.join of a directory and a file name
join(dir, name) == IF dir = "" THEN name ELSE dir \o "/" \o name

\* the pages of a range with its last page left out
AddedPagesExclusive(start, end) == range(start - 1, end - 1)

\* pdf_converter.py:130-131: the 0-indexed pages added to the writer
AddedPages(start, end) == range(start - 1, end)

\* pdf_converter.py:121-138: the loop over page_ranges from its i-th range
\* (counted from 1, as the file names are); done is what earlier turns left
RECURSIVE SplitEachRange(_, _, _, _, _)
SplitEachRange(page_ranges, i, total_pages, output_dir, done) ==
    IF i > Len(page_ranges)
      THEN [files |-> Range(done.paths), kind |-> "list", paths |-> done.paths,
            held |-> done.held]
      ELSE LET start == page_ranges[i][1]
               end == page_ranges[i][2]
               split_file ==
                   join(output_dir, "split_" \o ToString(i) \o ".pdf")
           IN  IF start < 1 \/ end > total_pages \/ start > end
                 THEN [files |-> Range(done.paths), kind |-> "raise",
                       paths |-> <<>>, held |-> done.held,
                       class |-> "ValueError"]
                 ELSE SplitEachRange(page_ranges, i + 1, total_pages, output_dir,
                          [paths |-> Append(done.paths, split_file),
                           held |-> Append(done.held, AddedPages(start, end))])

\* split_pdf, pdf_converter.py:96-140, on a PDF that PyPDF2 can read;
\* held[i] is the sequence of pages written to paths[i]
split_pdf(pdf_path, total_pages, kwargs) ==
    LET output_dir == Get(kwargs, "output_dir", dirname(pdf_path))
        given == Get(kwargs, "page_ranges", <<>>)
        page_ranges == IF given = <<>>
                         THEN [i \in 1 .. total_pages |-> <<i, i>>]
                         ELSE given
    IN  SplitEachRange(page_ranges, 1, total_pages, output_dir,
                       [paths |-> <<>>, held |-> <<>>])

\* range(a, b, step) of Python for step > 0: a, a + step, ... below b
range_step(a, b, step) ==
    [k \in 1 .. (IF b > a THEN (b - a + step - 1) \div step ELSE 0) |->
        a + (k - 1) * step]

\* str(Path(pdf_path).with_suffix('.docx')) of the paths the calls use
with_suffix_docx(pdf_path) ==
    CASE pdf_path = "uploads/a.pdf" -> "uploads/a.docx"
      [] pdf_path = "a.pdf" -> "a.docx"
      [] OTHER -> pdf_path \o ".docx"

\* document_converter.py:208-229: the chunks in the order of chunk_files,
\* each with its file name and the pages its document got, in the order
\* they were added; a page is its page_num
ProcessChunks(total_pages, chunk_size) ==
    LET start_pages == range_step(0, total_pages, chunk_size)
    IN  [k \in 1 .. Len(start_pages) |->
            LET start_page == start_pages[k]
                end_page == IF start_page + chunk_size <= total_pages
                              THEN start_page + chunk_size
                              ELSE total_pages
            IN  [path |-> "chunk_" \o ToString(start_page) \o ".docx",
                 doc |-> range(start_page, end_page)]]

\* composer.append for each of a sequence of documents, in its order
RECURSIVE AppendEach(_, _)
AppendEach(composed, docs) ==
    IF docs = <<>>
      THEN composed
      ELSE AppendEach(composed \o Head(docs).doc, Tail(docs))

\* a merge that saves the master document alone
ComposeMasterOnly(chunk_files) == chunk_files[1].doc

\* document_converter.py:237-246: the master document is the first chunk,
\* the remaining chunks are appended to it in order
Compose(chunk_files) == AppendEach(chunk_files[1].doc, Tail(chunk_files))

\* pdf_to_docx, document_converter.py:180-272, on a PDF that pypdf can
\* read; range() refuses a step of 0 and is empty for a negative one
pdf_to_docx(pdf_path, total_pages, kwargs) ==
    LET output_path == Get(kwargs, "output_path", with_suffix_docx(pdf_path))
        chunk_size == Get(kwargs, "chunk_size", 3)
        chunk_files == IF chunk_size > 0
                         THEN ProcessChunks(total_pages, chunk_size)
                         ELSE <<>>
    IN  IF chunk_size = 0
          THEN [files |-> {}, kind |-> "raise", paths |-> <<>>,
                class |-> "ValueError"]
          ELSE [files |-> {output_path}, kind |-> "path",
                paths |-> <<output_path>>,
                chunk_files |-> chunk_files,
                saved |-> IF chunk_files # <<>>
                            THEN Compose(chunk_files)
                            ELSE <<>>]

\* the call of a handler returns or raises
RunHandler(handler, value) ==
    /\ call.handler = handler
    /\ outcome = NoOutcome
    /\ outcome' = value
    /\ UNCHANGED <<call, now, file_tracker, storage, locked, sweepVars, touchVars,
                   shutVars, histVars, rpc, request, staged_path, result, response,
                   written, converters, invoked, tracked_paths, escaped, rotated,
                   parked>>

---------------------------------------------------------------------------
(* Specifications *)

\* app.py:23-26, 443-444: nothing is tracked, the sweep thread starts at
\* once, every request thread is idle.  storage and locked are set by the
\* specification.
Boot ==
    /\ now = 0
    /\ file_tracker = [p \in {} |-> 0]
    /\ spc = "sleep"
    /\ current_time = 0
    /\ expired_files = <<>>
    /\ sweep_i = 1
    /\ wake = 0
    /\ sweepLog = <<>>
    /\ tpc = [t \in Threads |-> "idle"]
    /\ tpath = [t \in Threads |-> NoPath]
    /\ tnow = [t \in Threads |-> 0]
    /\ shpc = "run"
    /\ listing = <<>>
    /\ shut_i = 1
    /\ shutdownError = FALSE
    /\ last = [op |-> "none", path |-> NoPath]
    /\ maxStamp = [p \in Paths |-> 0]
    /\ raced = [p \in Paths |-> "no"]
    /\ rpc = "idle"
    /\ request = NoRequest
    /\ staged_path = NoPath
    /\ result = NoResult
    /\ response = NoResponse
    /\ written = {}
    /\ invoked = {}
    /\ tracked_paths = {}
    /\ escaped = NoException
    /\ rotated = NoRotation
    /\ parked = IdleContext

(* Spec: the background sweep beside the requests that store artifacts    *)
(* and reset their timers.                                                 *)

Init ==
    /\ Boot
    /\ call = NoCall /\ outcome = NoOutcome
    /\ converters = register_converters
    /\ storage = {}
    /\ locked \in SUBSET Paths

Sweep ==
    \/ SweepReadClock
    \/ SweepScan
    \/ SweepRemoveFile
    \/ SweepPop

Next ==
    \/ Tick /\ UNCHANGED <<histVars, routeVars>>
    \/ \E p \in Paths : StoreArtifact(p) /\ UNCHANGED <<histVars, routeVars>>
    \/ \E p \in Paths : Touch(p) /\ UNCHANGED <<histVars, routeVars>>
    \/ Sweep /\ UNCHANGED <<histVars, routeVars>>

Spec == Init /\ [][Next]_vars

---------------------------------------------------------------------------
(* SpecTouch: requests of two threads, their timer resets taken step by    *)
(* step, on an uploads folder that may hold files of an earlier run.       *)

\* the artifacts the requests of SpecTouch are about
TouchPaths == {"original_a.pdf", "converted_original_a.pdf"}

\* some other thread has read the clock for p and not yet stored it
ReadPending(t, p) == \E u \in Threads \ {t} : tpc[u] = "store" /\ tpath[u] = p

InitTouch ==
    /\ Boot
    /\ call = NoCall /\ outcome = NoOutcome
    /\ converters = register_converters
    /\ storage \in SUBSET TouchPaths
    /\ locked = {}

\* history of a track_file(p) call
ObserveTrack(p) ==
    /\ last' = [op |-> IF p \in DOMAIN file_tracker THEN "track_again" ELSE "track",
                path |-> p]
    /\ maxStamp' = [maxStamp EXCEPT ![p] = Max(@, now)]
    /\ raced' = [raced EXCEPT ![p] = IF ReadPending("none", p) THEN "track" ELSE @]

\* history of a membership test: a request for an untracked path is answered
ObserveCheck(p) ==
    /\ last' = IF p \in DOMAIN file_tracker THEN last
               ELSE [op |-> "touch_miss", path |-> p]
    /\ UNCHANGED <<maxStamp, raced>>

\* history of a clock read
ObserveClock(t) ==
    /\ maxStamp' = [maxStamp EXCEPT ![tpath[t]] = Max(@, now)]
    /\ raced' = [raced EXCEPT ![tpath[t]] =
                    IF @ = "no" /\ ReadPending(t, tpath[t]) THEN "touch" ELSE @]
    /\ UNCHANGED last

\* history of a store
ObserveStore(t) ==
    /\ last' = [op |-> "touch", path |-> tpath[t]]
    /\ UNCHANGED <<maxStamp, raced>>

NextTouch ==
    \/ Tick /\ UNCHANGED <<histVars, routeVars>>
    \/ \E p \in TouchPaths : StoreArtifact(p) /\ ObserveTrack(p) /\ UNCHANGED routeVars
    \/ \E t \in Threads, p \in TouchPaths :
            download_file(t, p) /\ ObserveCheck(p) /\ UNCHANGED routeVars
    \/ \E t \in Threads, p \in TouchPaths :
            preview_file(t, p) /\ ObserveCheck(p) /\ UNCHANGED routeVars
    \/ \E t \in Threads : TouchClock(t) /\ ObserveClock(t) /\ UNCHANGED routeVars
    \/ \E t \in Threads : TouchStore(t) /\ ObserveStore(t) /\ UNCHANGED routeVars

SpecTouch == InitTouch /\ [][NextTouch]_vars

---------------------------------------------------------------------------
(* SpecShutdown: the process stores artifacts, sweeps, and is shut down;   *)
(* the uploads folder may hold files of an earlier run.                    *)

\* The lifecycle actions treat all paths alike and InitShutdown lets any of
\* them exist at the start: one locked set of each size stands for the others.
LockedChoices ==
    {{}, {"original_a.pdf"}, {"original_a.pdf", "original_b.png"}, Paths}

InitShutdown ==
    /\ Boot
    /\ call = NoCall /\ outcome = NoOutcome
    /\ converters = register_converters
    /\ storage \in SUBSET Paths
    /\ locked \in LockedChoices

cleanup_all_files ==
    \/ ShutdownBegin
    \/ ShutdownIsFile
    \/ ShutdownRemove
    \/ ShutdownFinish

NextShutdown ==
    \/ Tick /\ UNCHANGED <<histVars, routeVars>>
    \/ \E p \in Paths : StoreArtifact(p) /\ UNCHANGED <<histVars, routeVars>>
    \/ Sweep /\ UNCHANGED <<histVars, routeVars>>
    \/ cleanup_all_files /\ UNCHANGED <<histVars, routeVars>>

SpecShutdown == InitShutdown /\ [][NextShutdown]_vars

---------------------------------------------------------------------------
(* SpecRoutes: conversion requests, served one after the other, on an      *)
(* uploads folder that is empty at the start.                              *)

\* the forms of F, and each of them with the field k set to a value of V
With(F, k, V) == F \cup {SetEntry(f, k, v) : f \in F, v \in V}

TypeForm(t) == SetEntry(EmptyDict, "conversion_type", t)

\* the registered names and one that is not registered
ConversionTypes == DOMAIN register_converters \cup {"pdf_to_word"}

\* forms that name the conversion t, with and without the fields the routes
\* read for t
FormsOf(t) ==
    CASE t = "pdf_to_images" ->
            With(With({TypeForm(t)}, "dpi", {"150", "abc"}), "format", {"JPEG"})
      [] t = "compress_pdf" -> With({TypeForm(t)}, "quality", {"low"})
      [] t = "rotate_pdf_pages" ->
            With(With({TypeForm(t)}, "rotation", {"-90", "450", "9x"}),
                 "pages", {"", "2,1", "1,x"})
      [] t = "encrypt_pdf" ->
            With(With({TypeForm(t)}, "password", {"pw"}), "owner_password", {"own"})
      [] t = "decrypt_pdf" -> With({TypeForm(t)}, "password", {"pw"})
      [] t \in {"excel_to_pdf", "create_csv_from_excel"} ->
            With({TypeForm(t)}, "sheet_name", {"Jan"})
      [] t = "text_to_html" -> With({TypeForm(t)}, "title", {"Notes"})
      [] OTHER -> {TypeForm(t)}

\* the forms posted to /pdf/convert and /document/convert
ConversionForms == {EmptyDict} \cup UNION {FormsOf(t) : t \in ConversionTypes}

\* the forms posted to /convert
ImageForms ==
    With(With(With({EmptyDict}, "input_format", {"png", "gif"}),
              "output_format", {"PNG", "jpg", "heic"}),
         "quality", {"80", "abc"})

\* request.files: no file part, a part without a name, a.pdf, docs/a.pdf
Uploads ==
    {[part |-> FALSE, dir |-> "", stem |-> "", ext |-> ""],
     [part |-> TRUE, dir |-> "", stem |-> "", ext |-> ""],
     [part |-> TRUE, dir |-> "", stem |-> "a", ext |-> "pdf"],
     [part |-> TRUE, dir |-> "docs", stem |-> "a", ext |-> "pdf"]}

InitRoutes ==
    /\ Boot
    /\ call = NoCall /\ outcome = NoOutcome
    /\ converters = register_converters
    /\ storage = {}
    /\ locked = {}

\* app.py:124-185
convert_image_route ==
    \/ \E file \in Uploads : Reject("image", file)
    \/ \E file \in Uploads, form \in ImageForms : Stage("image", file, form)
    \/ ImageConvert

\* app.py:188-321
convert_pdf_route ==
    \/ \E file \in Uploads : Reject("pdf", file)
    \/ \E file \in Uploads, form \in ConversionForms : Stage("pdf", file, form)
    \/ PdfDispatch
    \/ PdfRespond

\* app.py:324-429
convert_document_route ==
    \/ \E file \in Uploads : Reject("document", file)
    \/ \E file \in Uploads, form \in ConversionForms : Stage("document", file, form)
    \/ DocumentDispatch
    \/ DocumentRespond

NextRoutes ==
    \/ convert_image_route /\ UNCHANGED <<parked, handlerVars>>
    \/ convert_pdf_route /\ UNCHANGED <<parked, handlerVars>>
    \/ convert_document_route /\ UNCHANGED <<parked, handlerVars>>
    \/ get_available_converters /\ UNCHANGED <<parked, handlerVars>>

SpecRoutes == InitRoutes /\ [][NextRoutes]_vars

---------------------------------------------------------------------------
(* SpecConcurrent: two request threads serve conversion requests at the    *)
(* same time, their steps interleaved.                                     *)

\* request.files: a.pdf, docs/a.pdf, a.docx
ConcurrentUploads ==
    {[part |-> TRUE, dir |-> "", stem |-> "a", ext |-> "pdf"],
     [part |-> TRUE, dir |-> "docs", stem |-> "a", ext |-> "pdf"],
     [part |-> TRUE, dir |-> "", stem |-> "a", ext |-> "docx"]}

\* the forms posted
ConcurrentForms == {TypeForm("compress_pdf"), TypeForm("docx_to_pdf")}

NextConcurrent ==
    \/ \E route \in {"pdf", "document"}, file \in ConcurrentUploads,
          form \in ConcurrentForms :
            Stage(route, file, form) /\ UNCHANGED <<parked, handlerVars>>
    \/ PdfDispatch /\ UNCHANGED <<parked, handlerVars>>
    \/ PdfRespond /\ UNCHANGED <<parked, handlerVars>>
    \/ DocumentDispatch /\ UNCHANGED <<parked, handlerVars>>
    \/ DocumentRespond /\ UNCHANGED <<parked, handlerVars>>
    \/ Switch

SpecConcurrent == InitRoutes /\ [][NextConcurrent]_vars

---------------------------------------------------------------------------
(* SpecRegistry: the register calls made while the converter modules are   *)
(* imported, from the empty registry of converter_factory.py:7.            *)

\* names and handlers of the register calls
RegistryNames == {"docx_to_pdf", "html_to_pdf", "pdf_to_docx", "text_to_html"}
RegistryHandlers == {"docx_to_pdf", "html_to_pdf", "text_to_html"}

InitRegistry ==
    /\ Boot
    /\ call = NoCall /\ outcome = NoOutcome
    /\ converters = EmptyDict
    /\ storage = {}
    /\ locked = {}

\* history of a register call
ObserveRegister(conversion_type) ==
    /\ last' = [op |-> IF conversion_type \in DOMAIN converters
                         THEN "register_again" ELSE "register",
                path |-> conversion_type]
    /\ UNCHANGED <<maxStamp, raced>>

NextRegistry ==
    \E conversion_type \in RegistryNames, converter_func \in RegistryHandlers :
        Register(conversion_type, converter_func) /\ ObserveRegister(conversion_type)

SpecRegistry == InitRegistry /\ [][NextRegistry]_vars

---------------------------------------------------------------------------
(* SpecHandlers: one call of a handler, on any of the inputs listed.       *)

SheetNames == {"Jan", "Feb", "Mar"}

\* workbooks: at least one sheet, no name twice, any sheet may be empty
Workbooks ==
    {w \in UNION {[1 .. n -> [name : SheetNames, empty : BOOLEAN]] :
                     n \in 1 .. MaxSheets} :
        \A i, j \in 1 .. Len(w) : w[i].name = w[j].name => i = j}

CsvKwargs ==
    LET out == SetEntry(EmptyDict, "output_path", "out.csv")
    IN  {out, SetEntry(out, "all_sheets", TRUE), SetEntry(out, "sheet_name", "Feb")}

CsvCalls ==
    {[handler |-> "create_csv_from_excel", workbook |-> w, kwargs |-> kw] :
        w \in Workbooks, kw \in CsvKwargs}

RotateKwargs ==
    LET out == SetEntry(EmptyDict, "output_path", "out.pdf")
    IN  {kw \in With(With({out}, "rotation", 0 - MaxRotation .. MaxRotation),
                      "pages", {<<2>>}) :
            "rotation" \in DOMAIN kw}

RotateCalls ==
    {[handler |-> "rotate_pdf_pages", total_pages |-> n, kwargs |-> kw] :
        n \in {0, MaxPages}, kw \in RotateKwargs}

\* (start, end) pairs, the out-of-range and reversed ones among them
PageRanges == (0 .. MaxPages + 1) \X (0 .. MaxPages + 1)

SplitKwargs ==
    With(With({EmptyDict}, "page_ranges",
              UNION {[1 .. n -> PageRanges] : n \in 0 .. MaxRanges}),
         "output_dir", {"parts"})

SplitCalls ==
    {[handler |-> "split_pdf", pdf_path |-> path, total_pages |-> n,
      kwargs |-> kw] :
        path \in {"uploads/a.pdf", "a.pdf"}, n \in 0 .. MaxPages,
        kw \in SplitKwargs}

DocxKwargs ==
    With(With({EmptyDict}, "output_path", {"out.docx"}),
         "chunk_size", -1 .. MaxChunk)

DocxCalls ==
    {[handler |-> "pdf_to_docx", pdf_path |-> "uploads/a.pdf",
      total_pages |-> n, kwargs |-> kw] :
        n \in 0 .. MaxDocxPages, kw \in DocxKwargs}

HandlerCalls == CsvCalls \cup RotateCalls \cup SplitCalls \cup DocxCalls

InitHandlers ==
    /\ Boot
    /\ converters = register_converters
    /\ storage = {}
    /\ locked = {}
    /\ call \in HandlerCalls
    /\ outcome = NoOutcome

NextHandlers ==
    \/ RunHandler("create_csv_from_excel",
                  create_csv_from_excel(call.workbook, call.kwargs))
    \/ RunHandler("rotate_pdf_pages",
                  rotate_pdf_pages(call.total_pages, call.kwargs))
    \/ RunHandler("split_pdf",
                  split_pdf(call.pdf_path, call.total_pages, call.kwargs))
    \/ RunHandler("pdf_to_docx",
                  pdf_to_docx(call.pdf_path, call.total_pages, call.kwargs))

SpecHandlers == InitHandlers /\ [][NextHandlers]_vars

---------------------------------------------------------------------------
(* Steps of the sweep, as seen from outside *)

\* the item the removal loop is at
SweepItem == expired_files[sweep_i]

\* the sweep is done with SweepItem in this step (removed it, or failed on it)
SweepFinishesItem == Len(sweepLog') = Len(sweepLog) + 1

\* the sweep's os.remove of SweepItem raised in this step
SweepFailsOnItem == SweepFinishesItem /\ sweepLog'[Len(sweepLog')] = "failed"

\* the sweep's os.remove of SweepItem deleted a file in this step
SweepDeletesFile == spc = "remove" /\ spc' = "pop" /\ SweepItem \in storage

\* the sweep's file_tracker.pop removed SweepItem's entry in this step
SweepDropsEntry == spc = "pop" /\ spc' # "pop" /\ SweepItem \in DOMAIN file_tracker

\* the removal loop of a pass ends in this step
SweepEndsPass == spc \in {"remove", "pop"} /\ spc' = "sleep"

---------------------------------------------------------------------------
(* C2: an artifact last touched at T is not removed by a sweep that runs   *)
(* at a time current_time with current_time - T <= FILE_EXPIRATION, and    *)
(* once the sweep that ran at a time with current_time - T >               *)
(* FILE_EXPIRATION is done with it, untouched, its file and its entry are  *)
(* gone.                                                                   *)
C2_ExpiryWindow ==
    [][ /\ (SweepDeletesFile \/ SweepDropsEntry)
            => IsExpired(current_time, file_tracker[SweepItem])
        /\ (SweepFinishesItem /\ SweepItem \in DOMAIN file_tracker
                              /\ IsExpired(current_time, file_tracker[SweepItem]))
            => (SweepItem \notin storage' /\ SweepItem \notin DOMAIN file_tracker')
      ]_vars

(* C3: whenever the sweep deletes a file or drops its entry, the entry's   *)
(* last-touched time at that moment is older than the expiration window.   *)
C3_DeletesOnlyStale ==
    [][ (SweepDeletesFile \/ SweepDropsEntry)
            => /\ SweepItem \in DOMAIN file_tracker
               /\ IsExpired(now, file_tracker[SweepItem])
      ]_vars

(* C5: when the sweep is done with an expired artifact, also when deleting *)
(* its file failed or the file was already gone, the artifact's tracking   *)
(* entry has been removed.                                                 *)
C5_EntryRemovedDespiteFailure ==
    [][ SweepFinishesItem => SweepItem \notin DOMAIN file_tracker' ]_vars

(* C6: a failure on one expired artifact does not end the pass: the loop   *)
(* goes on with the next item, every item found expired at the scan has    *)
(* been worked on when the pass ends, each one that did not fail had its   *)
(* file deleted and its entry removed, and no step of the sweep changes    *)
(* the entry or the file of an artifact that was not found expired.        *)
C6_FailureIsolated ==
    [][ /\ SweepFailsOnItem =>
              /\ sweep_i' = sweep_i + 1
              /\ sweep_i < Len(expired_files) => spc' = "remove"
        /\ (spc = "remove" /\ spc' = "pop") => SweepItem \notin storage'
        /\ (spc = "pop" /\ spc' # "pop") =>
              /\ SweepItem \notin DOMAIN file_tracker'
              /\ sweepLog'[Len(sweepLog')] = "removed"
        /\ SweepEndsPass => Len(sweepLog') = Len(expired_files)
        /\ (spc \in {"remove", "pop"} /\ (spc' # spc \/ sweep_i' # sweep_i)) =>
              \A q \in Paths \ Range(expired_files) :
                 /\ (q \in storage') = (q \in storage)
                 /\ (q \in DOMAIN file_tracker') = (q \in DOMAIN file_tracker)
                 /\ q \in DOMAIN file_tracker => file_tracker'[q] = file_tracker[q]
      ]_vars

\* a pass is over in which the first expired artifact failed, the second was
\* removed, and an artifact that was not expired is still tracked
C6_Witness ==
    /\ spc = "sleep"
    /\ Len(expired_files) >= 2
    /\ Len(sweepLog) = Len(expired_files)
    /\ sweepLog[1] = "failed"
    /\ sweepLog[2] = "removed"
    /\ expired_files[2] \notin storage
    /\ expired_files[2] \notin DOMAIN file_tracker
    /\ \E q \in Paths \ Range(expired_files) : q \in DOMAIN file_tracker

---------------------------------------------------------------------------
(* Claims about the timer reset and track_file, under SpecTouch *)

\* no download or preview of p is between its membership test and its store
Quiescent(p) == \A t \in Threads : tpath[t] # p

(* C4 as stated: once the concurrent touches of an artifact have all       *)
(* finished (and no track_file call wrote in between), its stored          *)
(* last-touched value is the largest clock value that was read for it.     *)
C4_ConvergesToLatest ==
    \A p \in DOMAIN file_tracker :
       (Quiescent(p) /\ raced[p] # "track") => file_tracker[p] = maxStamp[p]

(* C4 amended: the stored value is a clock value that was read for the     *)
(* artifact, so never newer than the largest one, and it is older than the *)
(* largest one only if some clock read for the artifact happened while     *)
(* another touch had read the clock and not yet stored its value.          *)
C4_LastWriterWins ==
    \A p \in DOMAIN file_tracker :
       /\ file_tracker[p] <= maxStamp[p]
       /\ (Quiescent(p) /\ file_tracker[p] < maxStamp[p]) => raced[p] # "no"

\* two touches of one artifact have finished, the stored value is older than
\* the newest clock value read, and their read-then-write windows overlapped
C4_Witness ==
    \E p \in DOMAIN file_tracker :
       /\ Quiescent(p)
       /\ last = [op |-> "touch", path |-> p]
       /\ raced[p] = "touch"
       /\ file_tracker[p] < maxStamp[p]

(* C9: a track_file call on a path that is already tracked adds no entry,  *)
(* sets that path's timestamp to the time of the call, and changes no      *)
(* other entry.                                                            *)
C9_TrackIdempotent ==
    [][ \A p \in Paths :
          (StoreArtifact(p) /\ p \in DOMAIN file_tracker) =>
             /\ DOMAIN file_tracker' = DOMAIN file_tracker
             /\ Cardinality(DOMAIN file_tracker') = Cardinality(DOMAIN file_tracker)
             /\ file_tracker'[p] = now
             /\ \A q \in DOMAIN file_tracker \ {p} : file_tracker'[q] = file_tracker[q]
      ]_vars

\* a path was tracked a second time, later than the first, beside another entry
C9_Witness ==
    /\ last.op = "track_again"
    /\ last.path \in DOMAIN file_tracker
    /\ file_tracker[last.path] = now
    /\ now > 0
    /\ \E q \in DOMAIN file_tracker : q # last.path /\ file_tracker[q] < now

(* C10: a download or preview of a path that has a tracking entry stores   *)
(* the clock value the request read as that entry's timestamp and changes  *)
(* nothing else in the table; for a path without an entry the request is   *)
(* answered and the table is left as it was: no entry is created.          *)
C10_TouchFrame ==
    [][ \A t \in Threads :
          /\ (tpc[t] = "idle" /\ tpc'[t] # "idle") =>
                /\ tpath'[t] \in DOMAIN file_tracker
                /\ file_tracker' = file_tracker
          /\ (tpc[t] = "clock" /\ tpc'[t] = "store") =>
                /\ tnow'[t] = now
                /\ file_tracker' = file_tracker
          /\ (tpc[t] = "store" /\ tpc'[t] = "idle") =>
                /\ DOMAIN file_tracker' = DOMAIN file_tracker \cup {tpath[t]}
                /\ file_tracker'[tpath[t]] = tnow[t]
                /\ \A q \in DOMAIN file_tracker \ {tpath[t]} :
                      file_tracker'[q] = file_tracker[q]
          /\ (last' # last /\ last'.op = "touch_miss") =>
                /\ last'.path \notin DOMAIN file_tracker
                /\ file_tracker' = file_tracker
                /\ tpc' = tpc
      ]_vars

\* a file of an earlier run, never tracked, was requested and answered while
\* the table holds other entries, and the table has no entry for it
C10_Witness ==
    /\ last.op = "touch_miss"
    /\ last.path \in storage
    /\ last.path \notin DOMAIN file_tracker
    /\ DOMAIN file_tracker # {}
    /\ \A t \in Threads : tpc[t] = "idle"

---------------------------------------------------------------------------
(* Claims about cleanup_all_files, under SpecShutdown *)

(* C7: when cleanup_all_files has run, the uploads folder holds no file,   *)
(* whether the files it held were tracked or not; stated here for the runs *)
(* in which no file is one that cannot be removed.                         *)
C7_ReclaimAllEmpties ==
    (shpc = "exited" /\ locked = {}) => storage = {}

(* C8: when cleanup_all_files has run, every file it listed is deleted     *)
(* except those whose own deletion fails: one failure does not keep the    *)
(* other files from being deleted.                                         *)
C8_ReclaimAllTolerant ==
    shpc = "exited" => \A f \in Range(listing) : f \in storage => f \in locked

---------------------------------------------------------------------------
(* Claims about the conversion routes, under SpecRoutes *)

\* a conversion request has been answered and no other is being served
Answered == rpc = "idle" /\ response.status # 0

(* C1: when a conversion request has been answered, successfully or not,   *)
(* every file it wrote into the uploads folder (the staged input, the      *)
(* handler's outputs, an archive or text file made by the route) has an    *)
(* entry in file_tracker, and the folder holds no untracked file.          *)
C1_WrittenFilesTracked ==
    Answered =>
        /\ written \subseteq DOMAIN file_tracker
        /\ storage \subseteq DOMAIN file_tracker

---------------------------------------------------------------------------
(* The dispatcher and the registry *)

\* a conversion route is about to dispatch the request it has staged
Dispatching ==
    /\ rpc = "staged"
    /\ request.route \in {"pdf", "document"}
    /\ "conversion_type" \in DOMAIN request.form

\* ... under a name the registry does not hold
DispatchingUnknown ==
    /\ Dispatching
    /\ request.form["conversion_type"] \notin DOMAIN converters

(* C11: dispatching a name that is not registered fails with the          *)
(* unknown-operation error of ConverterFactory.convert: no handler is      *)
(* called, no file is written and the registry is left as it was.          *)
C11_UnknownOperationFails ==
    [][DispatchingUnknown =>
          /\ rpc' = "idle"
          /\ response'.error = "No converter registered for type"
          /\ invoked' = {}
          /\ storage' = storage
          /\ written' = written
          /\ converters' = converters]_vars

\* a request that named an unregistered conversion has been answered
C11_Witness ==
    /\ Answered
    /\ response.error = "No converter registered for type"
    /\ invoked = {}

\* the errors that answer a missing conversion_type, a malformed integer
\* and an unregistered conversion_type
RejectionErrors == {"KeyError", "ValueError", "No converter registered for type"}

(* C12: a missing or malformed parameter and an unregistered conversion    *)
(* type are detected before any file I/O: a request rejected for one of    *)
(* these has written no file and added no tracking entry.                  *)
C12_RejectedBeforeIO ==
    (Answered /\ response.error \in RejectionErrors) =>
        written = {} /\ tracked_paths = {}

\* the step in which the handler of the dispatched operation runs and raises
HandlerFails == Dispatching /\ invoked' # {} /\ rpc' = "idle"

(* C13: when a handler fails, what leaves ConverterFactory.convert is a    *)
(* classified conversion failure that records the operation name and the   *)
(* original cause; no raw, unclassified failure escapes it.                *)
C13_FailureClassified ==
    [][HandlerFails =>
          /\ escaped'.class = "ConversionFailed"
          /\ escaped'.operation = request.form["conversion_type"]
          /\ escaped'.cause # ""]_vars

(* C14: a request that names an unregistered operation is answered with a  *)
(* status of the 400 class, not with the 500 that answers handler failures. *)
C14_UnknownIsClientError ==
    [][DispatchingUnknown =>
          /\ rpc' = "idle"
          /\ response'.status \in 400 .. 499]_vars

(* C16: registering a handler under a name that is already registered     *)
(* replaces the earlier handler: the lookup that follows yields the latest *)
(* handler, the number of registered names does not grow and the handlers  *)
(* of the other names are unchanged.                                       *)
C16_RegisterReplaces ==
    [][\A n \in RegistryNames, f \in RegistryHandlers :
          (n \in DOMAIN converters /\ Register(n, f)) =>
              /\ converters'[n] = f
              /\ Cardinality(DOMAIN converters') = Cardinality(DOMAIN converters)
              /\ \A m \in DOMAIN converters \ {n} : converters'[m] = converters[m]]_vars

\* a name has been registered a second time beside another name
C16_Witness ==
    /\ last.op = "register_again"
    /\ Cardinality(DOMAIN converters) = 2

(* C17: after the registrations of startup the registry is read-only:      *)
(* no dispatch, lookup, listing or handler execution changes it.           *)
C17_RegistryReadOnly ==
    [][converters' = converters /\ converters' = register_converters]_vars

\* the registry has been listed after a handler has written its output
C17_Witness ==
    /\ rpc = "idle"
    /\ "converters" \in DOMAIN response
    /\ response.converters = DOMAIN register_converters
    /\ "converted_original_a.pdf" \in storage

---------------------------------------------------------------------------
(* Parameter resolution *)

\* the fields each operation takes from the form
OperationFields(t) ==
    CASE t = "pdf_to_images" -> {"dpi", "format"}
      [] t = "compress_pdf" -> {"quality"}
      [] t = "rotate_pdf_pages" -> {"rotation", "pages"}
      [] t = "encrypt_pdf" -> {"password", "owner_password"}
      [] t = "decrypt_pdf" -> {"password"}
      [] t \in {"excel_to_pdf", "create_csv_from_excel"} -> {"sheet_name"}
      [] t = "text_to_html" -> {"title"}
      [] OTHER -> {}

\* the declared defaults
DeclaredDefaults ==
    [k \in {"dpi", "format", "quality", "rotation", "title"} |->
        CASE k = "dpi" -> 300
          [] k = "format" -> "PNG"
          [] k = "quality" -> "medium"
          [] k = "rotation" -> 90
          [] k = "title" -> "Converted Document"]

\* the request gives the field k: it is in the form and not left empty
Given(form, k) == k \in DOMAIN form /\ form[k] # ""

\* the value of its type that the text v of the field k stands for
Resolved(k, v) ==
    CASE k \in {"dpi", "rotation"} -> int(v)
      [] k = "pages" -> [i \in 1 .. Len(split(v)) |-> int(split(v)[i])]
      [] OTHER -> v

\* a route is about to build the parameters of a registered operation from
\* a form whose integer fields are integers
WellTyped ==
    /\ Dispatching
    /\ request.form["conversion_type"] \in DOMAIN converters
    /\ ~PdfFieldsFail(request.form)

(* C18: for every operation, the parameters built from a request whose     *)
(* required fields are present and well-typed hold the declared default of *)
(* each optional field the request omits (dpi 300, format PNG, quality     *)
(* medium, rotation 90, title 'Converted Document') and the supplied value *)
(* of each field it gives.                                                 *)
C18_DefaultsAndSupplied ==
    WellTyped =>
        \A k \in OperationFields(request.form["conversion_type"]) :
            IF Given(request.form, k)
              THEN k \in DOMAIN params /\ params[k] = Resolved(k, request.form[k])
              ELSE k \in DOMAIN DeclaredDefaults =>
                       k \in DOMAIN params /\ params[k] = DeclaredDefaults[k]

\* the request being served gives a value that is not an integer for an
\* integer field: dpi, rotation or an element of pages of the operation it
\* names, or the quality of an image conversion
BadIntegerField ==
    \/ Dispatching /\ PdfFieldsFail(request.form)
    \/ rpc = "staged" /\ request.route = "image" /\ BadInt(request.form, "quality")

RotateRequest ==
    /\ rpc \in {"staged", "returned"}
    /\ request.route = "pdf"
    /\ "conversion_type" \in DOMAIN request.form
    /\ request.form["conversion_type"] = "rotate_pdf_pages"
    /\ ~PdfFieldsFail(request.form)

\* the page list the texts of the field pages stand for
PageList(text) ==
    CASE text = "" -> <<>>
      [] text = "2" -> <<2>>
      [] text = "2,1" -> <<2, 1>>

(* C20, as stated: the pages field is resolved to an ordered integer       *)
(* sequence that keeps the order of the comma-separated input, an empty    *)
(* string is resolved to the empty sequence, and the rotate handler treats *)
(* the empty sequence as "all pages".                                      *)
C20_EmptyIsEmptySequence ==
    (RotateRequest /\ "pages" \in DOMAIN request.form) =>
        /\ "pages" \in DOMAIN params
        /\ params["pages"] = PageList(request.form["pages"])
        /\ \A n \in 0 .. MaxPages :
               RotatedPages(SetEntry(params, "pages", <<>>), n) = 1 .. n

(* C20, amended: the pages field is resolved to an ordered integer         *)
(* sequence that keeps the order of the comma-separated input; an empty    *)
(* string leaves pages out of the parameters, and the rotate handler, run  *)
(* without pages, rotates all pages.                                       *)
C20_PagesResolved ==
    RotateRequest =>
        LET text == Get(request.form, "pages", "")
        IN  /\ IF text = ""
                 THEN "pages" \notin DOMAIN params
                 ELSE "pages" \in DOMAIN params /\ params["pages"] = PageList(text)
            /\ (rpc = "returned" /\ text = "") =>
                   rotated.pages = 1 .. rotated.total_pages

\* rotate_pdf_pages has run on a PDF of two pages for a request whose
\* pages field is empty
C20_Witness ==
    /\ RotateRequest
    /\ rpc = "returned"
    /\ "pages" \in DOMAIN request.form
    /\ request.form["pages"] = ""
    /\ rotated.total_pages = 2
    /\ rotated.pages = {1, 2}

---------------------------------------------------------------------------
(* Concurrent requests *)

\* the request of the context c has staged its upload and is not answered
InFlight(c) == c.rpc \in {"staged", "returned"}

(* C15: two requests in flight at the same time, with different uploads,   *)
(* write disjoint sets of paths (staged input, handler outputs, archive,   *)
(* text file): neither overwrites a file of the other.                     *)
C15_DisjointWrites ==
    (/\ InFlight(Context)
     /\ InFlight(parked)
     /\ request.file # parked.request.file) =>
        written \cap parked.written = {}

---------------------------------------------------------------------------
(* Results of the handlers *)

\* the PDF route is about to dispatch pdf_to_images with a dpi that is an
\* integer
PdfToImagesRequest ==
    /\ WellTyped
    /\ request.route = "pdf"
    /\ request.form["conversion_type"] = "pdf_to_images"

(* C21: a pdf_to_images request on an N-page PDF gets a multi-file result, *)
(* and for a multi-file result the response carries exactly N preview      *)
(* references in the handler's page order, the archive made for it holds   *)
(* exactly those N files, one entry each, and the archive is tracked when  *)
(* the response is returned.                                               *)
C21_MultiFileBundled ==
    [][/\ PdfToImagesRequest => invoked' = {"pdf_to_images"}
       /\ (rpc = "returned" /\ result.kind = "list" /\ rpc' = "idle") =>
              /\ response'.status = 200
              /\ "images" \in DOMAIN response' /\ response'.images = result.paths
              /\ response'.archive = result.paths
              /\ \E zip \in DOMAIN file_tracker' :
                     zip \in tracked_paths' /\ zip \notin Range(result.paths)]_vars

\* the step in which a handler raises after it has written output
FailsAfterWriting == HandlerFails /\ written' # written

(* C22: when a conversion fails after the handler has written output       *)
(* files, the partial outputs are cleaned up before control returns: after *)
(* the failure response no file the failed handler wrote is in storage.    *)
C22_PartialOutputsRemoved ==
    [][FailsAfterWriting => (written' \ written) \cap storage' = {}]_vars

\* create_csv_from_excel has been called with all_sheets set and has returned
AllSheetsDone ==
    /\ call.handler = "create_csv_from_excel"
    /\ Get(call.kwargs, "all_sheets", FALSE)
    /\ outcome # NoOutcome

NonEmptySheets(w) == SelectSeq(w, LAMBDA sheet : ~sheet.empty)

C24_KeywordsAccepted ==
    /\ WellTyped =>
           Binds(converters[request.form["conversion_type"]], DOMAIN params)
    /\ Answered => escaped.class # "TypeError"

\* rotate_pdf_pages has been called and has returned
RotateDone == call.handler = "rotate_pdf_pages" /\ outcome # NoOutcome

(* C25: for every integer rotation (negative, zero, above 360, a multiple  *)
(* of 90 or not) the angle rotate_pdf_pages applies is one of 0, 90, 180,  *)
(* 270: it is rotation mod 360 rounded down to a multiple of 90, and for a *)
(* rotation that is a multiple of 90 it is rotation mod 360.               *)
C25_AngleNormalised ==
    RotateDone =>
        LET rotation == call.kwargs["rotation"]
            angle == outcome.rotated.angle
        IN  /\ angle \in {0, 90, 180, 270}
            /\ \E turns \in -2 .. 2, rest \in 0 .. 89 :
                   rotation = 360 * turns + angle + rest
            /\ (\E quarter \in -6 .. 6 : rotation = 90 * quarter) =>
                   \E turns \in -2 .. 2 : rotation = 360 * turns + angle

\* a rotation of -100 degrees has been applied as 180
C25_Witness ==
    /\ RotateDone
    /\ call.kwargs["rotation"] = 0 - 100
    /\ outcome.rotated.angle = 180

\* split_pdf has been called and has returned or raised
SplitDone == call.handler = "split_pdf" /\ outcome # NoOutcome

\* the page ranges a call of split_pdf was given, none as the empty list
GivenRanges == Get(call.kwargs, "page_ranges", <<>>)

\* a range the PDF of the call does not have
BadRange(r) == r[1] < 1 \/ r[2] > call.total_pages \/ r[1] > r[2]

(* C26: split_pdf on a PDF of N pages with no page ranges produces exactly *)
(* N output files in page order, file i holding only page i; with explicit *)
(* ranges it produces one file per range holding pages start..end          *)
(* inclusive in order; a range with start < 1, end > N or start > end is   *)
(* rejected with an error.                                                 *)
C26_SplitByRanges ==
    SplitDone =>
        LET N == call.total_pages
            made == outcome.paths
        IN  /\ GivenRanges = <<>> =>
                   /\ outcome.kind = "list"
                   /\ Len(made) = N
                   /\ Cardinality(outcome.files) = N
                   /\ \A i \in 1 .. N : outcome.held[i] = <<i - 1>>
            /\ (GivenRanges # <<>> /\ \A r \in Range(GivenRanges) : ~BadRange(r)) =>
                   /\ outcome.kind = "list"
                   /\ Len(made) = Len(GivenRanges)
                   /\ Cardinality(outcome.files) = Len(GivenRanges)
                   /\ \A i \in 1 .. Len(GivenRanges) :
                          LET start == GivenRanges[i][1]
                              end == GivenRanges[i][2]
                          IN  /\ Len(outcome.held[i]) = end - start + 1
                              /\ \A k \in 1 .. end - start + 1 :
                                     outcome.held[i][k] + 1 = start + k - 1
            /\ (\E r \in Range(GivenRanges) : BadRange(r)) =>
                   /\ outcome.kind = "raise"
                   /\ outcome.class = "ValueError"

\* a two-page PDF has been split by the ranges (1, 2) and (2, 2)
C26_Witness ==
    /\ SplitDone
    /\ call.total_pages = 2
    /\ GivenRanges = <<(<<1, 2>>), (<<2, 2>>)>>
    /\ outcome.kind = "list"
    /\ outcome.held = <<(<<0, 1>>), (<<1>>)>>
    /\ Len(outcome.paths) = 2

\* pdf_to_docx has been called with a chunk size of at least 1 and is done
DocxDone ==
    /\ call.handler = "pdf_to_docx"
    /\ Get(call.kwargs, "chunk_size", 3) >= 1
    /\ outcome # NoOutcome

\* the pages of a sequence of chunks, chunk after chunk
RECURSIVE PagesOf(_)
PagesOf(chunks) ==
    IF chunks = <<>> THEN <<>> ELSE Head(chunks).doc \o PagesOf(Tail(chunks))

(* C27: pdf_to_docx with chunk_size c >= 1 on a PDF of N pages processes   *)
(* every page 0..N-1 exactly once, in ascending order, across ceil(N/c)    *)
(* chunks of at most c pages each, merges the chunks in that order, and    *)
(* for N = 0 still writes an (empty) output document.                      *)
C27_ChunkedInOrder ==
    DocxDone =>
        LET N == call.total_pages
            c == Get(call.kwargs, "chunk_size", 3)
            chunks == outcome.chunk_files
            pages == [i \in 1 .. N |-> i - 1]
        IN  /\ outcome.kind = "path"
            /\ PagesOf(chunks) = pages
            /\ Len(chunks) * c >= N
            /\ Len(chunks) > 0 => (Len(chunks) - 1) * c < N
            /\ \A k \in 1 .. Len(chunks) :
                   Len(chunks[k].doc) >= 1 /\ Len(chunks[k].doc) <= c
            /\ \A j, k \in 1 .. Len(chunks) :
                   chunks[j].path = chunks[k].path => j = k
            /\ outcome.saved = pages
            /\ outcome.files # {}
            /\ N = 0 => chunks = <<>> /\ outcome.saved = <<>>

\* seven pages have been converted in chunks of three pages
C27_Witness ==
    /\ DocxDone
    /\ call.total_pages = 7
    /\ Get(call.kwargs, "chunk_size", 3) = 3
    /\ Len(outcome.chunk_files) = 3
    /\ outcome.chunk_files[3].doc = <<6>>
    /\ outcome.saved = <<0, 1, 2, 3, 4, 5, 6>>

============================================================================
